---- MODULE Spec2Model ----
(***************************************************************************)
(* Model of the xwax timecode decoder (src/excrate.h, lines 41-776: the    *)
(* timecoder translation unit).                                            *)
(*                                                                         *)
(* Scale.  The decoder works on 32-bit ints, 16-bit PCM, 128-bit LFSR      *)
(* registers and sequences of up to five million states.  The model keeps  *)
(* every operation of the code but runs it at a reduced word size:         *)
(*   int        IntBits wide      (32 in the source)                       *)
(*   PCM shift  PcmShift          (16 in the source, half an int)          *)
(*   bits_t     RegBits wide      (128 in the source)                      *)
(* and the catalog holds one entry per family of the source catalog, with  *)
(* the family's flags and resolution, and with register widths that keep   *)
(* the source's order: narrow < medium < width of int <= wide < RegBits.   *)
(***************************************************************************)
EXTENDS Integers, Sequences, FiniteSets, TLC

\* ------------------------------------------------------------------ scale

\* width of `int` in bits
IntBits == 8

\* pcm[0] << 16 in the source: the PCM sample fills the upper half of an int
PcmShift == IntBits \div 2

\* width of bits_t (unsigned __int128 in the source)
RegBits == IntBits + 3

INT_MAX == 2^(IntBits - 1) - 1

INT_MIN == -(2^(IntBits - 1))

\* ------------------------------------------------------- program constants

VALID_BITS == 24

REF_PEAKS_AVG == 48

SWITCH_PHASE == 1

SWITCH_PRIMARY == 2

SWITCH_POLARITY == 4

OFFSET_MODULATION == 8

\* 128 << 16 in the source: one 256th of full scale there, one PCM step here
ZERO_THRESHOLD == 2^PcmShift

\* ------------------------------------------------------------ C arithmetic

\* C integer division (truncates toward zero)
CDiv(a, b) == IF a >= 0 THEN a \div b ELSE -((-a) \div b)

Abs(a) == IF a >= 0 THEN a ELSE -a

\* two's complement wrap of a value into the range of int
WrapInt(a) == ((a - INT_MIN) % 2^IntBits) + INT_MIN

InInt(a) == INT_MIN <= a /\ a <= INT_MAX

RECURSIVE BitAnd(_, _)
BitAnd(a, b) ==
    IF a = 0 \/ b = 0 THEN 0
    ELSE (a % 2) * (b % 2) + 2 * BitAnd(a \div 2, b \div 2)

RECURSIVE BitOr(_, _)
BitOr(a, b) ==
    IF a = 0 THEN b
    ELSE IF b = 0 THEN a
    ELSE (IF a % 2 = 1 \/ b % 2 = 1 THEN 1 ELSE 0) + 2 * BitOr(a \div 2, b \div 2)

\* x << n and x >> n in bits_t
Shl(x, n) == (x * 2^n) % 2^RegBits

Shr(x, n) == x \div 2^n

\* ----------------------------------------------------------------- catalog

HasFlag(flags, f) == (flags \div f) % 2 = 1

timecodes ==
    << [name |-> "serato_2a", resolution |-> 1000, flags |-> 0,
        bits |-> 3, seed |-> 5, taps |-> 2, length |-> 5, safe |-> 4],
       [name |-> "traktor_a", resolution |-> 2000,
        flags |-> SWITCH_PRIMARY + SWITCH_POLARITY + SWITCH_PHASE,
        bits |-> 4, seed |-> 3, taps |-> 8, length |-> 10, safe |-> 9],
       [name |-> "traktor_mk2_a", resolution |-> 2500, flags |-> OFFSET_MODULATION,
        bits |-> 9, seed |-> 57, taps |-> 541, length |-> 12, safe |-> 11],
       [name |-> "mixvibes_v2", resolution |-> 1300, flags |-> SWITCH_PHASE,
        bits |-> 3, seed |-> 6, taps |-> 4, length |-> 5, safe |-> 4],
       [name |-> "pioneer_a", resolution |-> 1000, flags |-> SWITCH_POLARITY,
        bits |-> 3, seed |-> 3, taps |-> 2, length |-> 6, safe |-> 5] >>

\* ARRAY_SIZE(timecodes)
NDefs == Len(timecodes)

Defs == 1..NDefs

\* a NULL struct timecode_def pointer
NULL == 0

\* -------------------------------------------------------------------- LFSR

RECURSIVE LfsrLoop(_, _)
LfsrLoop(taken, xrs) ==
    IF taken = 0 THEN xrs % 2
    ELSE LfsrLoop(taken \div 2, xrs + (taken % 2))

lfsr(code, taps) == LfsrLoop(BitAnd(code, taps), 0)

fwd(current, def) ==
    LET l == lfsr(current, BitOr(def.taps, 1))
    IN  BitOr(Shr(current, 1), Shl(l, def.bits - 1))

\* rev without bits_shifted: the feedback leaves out the bit shifted out of
\* the top of the register
rev_NoTopBit(current, def) ==
    LET taps_shifted == Shr(def.taps, 1)
        mask == Shl(1, def.bits) - 1
        l == lfsr(current, taps_shifted)
    IN  BitOr(BitAnd(Shl(current, 1), mask), l)

rev(current, def) ==
    LET taps_shifted == Shr(def.taps, 1)
        bits_shifted == Shl(1, def.bits - 1)
        mask == Shl(1, def.bits) - 1
        l == lfsr(current, BitOr(taps_shifted, bits_shifted))
    IN  BitOr(BitAnd(Shl(current, 1), mask), l)

\* ------------------------------------------------------------------- state

VARIABLES
    lookup,     \* lookup[n]: def->lookup of catalog entry n
    lut,        \* lut[n]: def->lut of catalog entry n
    aborted,    \* an assert() has failed: the process is gone
    ret,        \* the last API call and what it returned
    tc,         \* the decoder (struct timecoder)
    filt,       \* the file-scope filter state shared by every decoder
    tcB,        \* a second decoder of the same process
    solo,       \* decoder tc and the filter state as they would be had tc run alone
    reg,        \* an LFSR register under test: [def, x]
    nsamples,   \* samples submitted so far
    hist        \* history of decoder tc: what its last decoded bits did

vars ==
    << lookup, lut, aborted, ret, tc, filt, tcB, solo, reg, nsamples, hist >>

\* ---------------------------------------------------------------------- LUT

\* (unsigned __int128)-1, the value lut_lookup returns for an absent key
NOT_PRESENT == -1

\* a struct lut before lut_init: static storage, nothing allocated
NoLut == [state |-> "none", slot |-> << >>]

lut_init(length) == [state |-> "alloc", slot |-> << >>]

lut_push(l, x) == [l EXCEPT !.slot = Append(@, x)]

lut_lookup(l, x) ==
    IF \E i \in 1..Len(l.slot) : l.slot[i] = x
    THEN (CHOOSE i \in 1..Len(l.slot) :
              l.slot[i] = x /\ \A j \in 1..(i - 1) : l.slot[j] # x) - 1
    ELSE NOT_PRESENT

\* frees the table; clearing storage that is already freed is a double free
lut_clear(l) ==
    [state |-> IF l.state = "alloc" THEN "freed" ELSE "double_free", slot |-> << >>]

\* ------------------------------------------------------------ build_lookup

\* the for loop of build_lookup with lines 324 and 327 in the wrong order:
\* the state pushed is the one after current
RECURSIVE BuildLoop_PushNext(_, _, _, _)
BuildLoop_PushNext(def, l, current, n) ==
    IF n >= def.length THEN [lut |-> l, abort |-> FALSE]
    ELSE IF lut_lookup(l, current) # NOT_PRESENT THEN [lut |-> l, abort |-> TRUE]
    ELSE LET next == fwd(current, def)
             pushed == lut_push(l, next)
         IN  IF rev(next, def) # current THEN [lut |-> pushed, abort |-> TRUE]
             ELSE BuildLoop_PushNext(def, pushed, next, n + 1)

\* the for loop of build_lookup: n states pushed so far, current is the next
RECURSIVE BuildLoop(_, _, _, _)
BuildLoop(def, l, current, n) ==
    IF n >= def.length THEN [lut |-> l, abort |-> FALSE]
    ELSE IF lut_lookup(l, current) # NOT_PRESENT THEN [lut |-> l, abort |-> TRUE]
    ELSE LET pushed == lut_push(l, current)
             next == fwd(current, def)
         IN  IF rev(next, def) # current THEN [lut |-> pushed, abort |-> TRUE]
             ELSE BuildLoop(def, pushed, next, n + 1)

\* build_lookup with line 334 moved before the call of lut_init: the format is
\* marked built whether or not the LUT got its memory
build_lookup_MarkFirst(n, mem, lk, lt) ==
    IF lk[n] THEN [rc |-> 0, lookup |-> lk, lut |-> lt, abort |-> FALSE]
    ELSE IF ~mem THEN [rc |-> -1, lookup |-> [lk EXCEPT ![n] = TRUE], lut |-> lt,
                       abort |-> FALSE]
    ELSE LET b == BuildLoop(timecodes[n], lut_init(timecodes[n].length),
                            timecodes[n].seed, 0)
         IN  [rc |-> 0, lookup |-> [lk EXCEPT ![n] = TRUE],
              lut |-> [lt EXCEPT ![n] = b.lut], abort |-> b.abort]

\* build_lookup(&timecodes[n]); mem: whether lut_init gets its memory.
\* rc is the return value; lookup, lut and abort are the state it leaves.
build_lookup(n, mem, lk, lt) ==
    IF lk[n] THEN [rc |-> 0, lookup |-> lk, lut |-> lt, abort |-> FALSE]
    ELSE IF ~mem THEN [rc |-> -1, lookup |-> lk, lut |-> lt, abort |-> FALSE]
    ELSE LET b == BuildLoop(timecodes[n], lut_init(timecodes[n].length),
                            timecodes[n].seed, 0)
         IN  IF b.abort
             THEN [rc |-> 0, lookup |-> lk, lut |-> [lt EXCEPT ![n] = b.lut],
                   abort |-> TRUE]
             ELSE [rc |-> 0, lookup |-> [lk EXCEPT ![n] = TRUE],
                   lut |-> [lt EXCEPT ![n] = b.lut], abort |-> FALSE]

\* the for loop of timecoder_find_definition, from entry n on
RECURSIVE FindLoop(_, _, _, _, _)
FindLoop(name, n, mem, lk, lt) ==
    IF n > NDefs THEN [def |-> NULL, lookup |-> lk, lut |-> lt, abort |-> FALSE]
    ELSE IF timecodes[n].name # name THEN FindLoop(name, n + 1, mem, lk, lt)
    ELSE LET b == build_lookup(n, mem, lk, lt)
         IN  [def |-> IF b.rc = -1 \/ b.abort THEN NULL ELSE n,
              lookup |-> b.lookup, lut |-> b.lut, abort |-> b.abort]

timecoder_find_definition(name, mem, lk, lt) == FindLoop(name, 1, mem, lk, lt)

\* timecoder_free_lookup: the LUTs it leaves
timecoder_free_lookup(lk, lt) ==
    [n \in Defs |-> IF lk[n] THEN lut_clear(lt[n]) ELSE lt[n]]

\* --------------------------------------------------- undefined behaviour

\* An int expression whose exact value is a: a itself when it fits in an int;
\* on overflow, the wrapped value or the exact one (the expression evaluated
\* in a wider register).
IntResult(a) == IF InInt(a) THEN {a} ELSE {WrapInt(a), a}

\* Conversion to int of the value a (already truncated toward zero): defined
\* when it fits; otherwise the low bits, the "integer indefinite" INT_MIN, or
\* the saturated value.
IntConv(a) ==
    IF InInt(a) THEN {a}
    ELSE {WrapInt(a), INT_MIN, IF a > 0 THEN INT_MAX ELSE INT_MIN}

\* (bits_t) of an int: sign extension of a negative value
ToBits(i) == IF i >= 0 THEN i ELSE 2^RegBits + i

\* ((1 << bits) - 1) computed in int, then widened to bits_t.  Defined while
\* 1 << bits fits in an int; otherwise the shift count is taken modulo the
\* width of int, or the shift yields 0.
IntMask(bits) ==
    IF bits < IntBits - 1 THEN {2^bits - 1}
    ELSE {ToBits(WrapInt(WrapInt(2^(bits % IntBits)) - 1)), ToBits(-1)}

\* ------------------------------------------------------------------ filters

\* ema(x, &old, alpha) with alpha = 0.3: y = alpha x + (1 - alpha) old
ema(x, old) == CDiv(3 * x + 7 * old, 10)

\* discrete_derivative(x, &prev): d = x - prev, delivered in an int
discrete_derivative(x, prev) == IntConv(x - prev)

\* the six file-scope filter variables, zero at program start
FiltInit ==
    [ema_primary_old |-> 0, ema_secondary_old |-> 0, primary_old |-> 0,
     secondary_old |-> 0, left_old |-> 0, right_old |-> 0]

\* cbuf.size in timecoder_init
CBUF_SIZE == 10

cbuf_push(c, m) ==
    [c EXCEPT !.array[c.write_ptr + 1] = m,
              !.write_ptr = (c.write_ptr + 1) % CBUF_SIZE]

\* ------------------------------------------------------------------ decoder

init_channel(ch) == [ch EXCEPT !.positive = FALSE, !.zero = 0]

\* zero_alpha = dt / (ZERO_RC + dt) = 1 / (1 + ZERO_RC * sample_rate), held as
\* its denominator; the double arithmetic is exact for 1000, 3000 and 7000 Hz
ZeroAlphaDen(sample_rate) == 1 + sample_rate \div 1000

\* timecoder_init(tc, def, speed, sample_rate, phono) on the storage raw
timecoder_init(raw, def, speed, sample_rate, phono) ==
    [def |-> def,
     speed |-> speed,
     sample_rate |-> sample_rate,
     zero_alpha |-> ZeroAlphaDen(sample_rate),
     threshold |-> IF phono THEN ZERO_THRESHOLD \div 2^5 ELSE ZERO_THRESHOLD,
     forwards |-> TRUE,
     primary |-> init_channel(raw.primary),
     secondary |-> init_channel(raw.secondary),
     pitch |-> << 0, 1 >>,
     ref_level |-> INT_MAX,
     bitstream |-> 0,
     timecode |-> 0,
     valid_counter |-> 0,
     timecode_ticker |-> 0,
     mon |-> NULL,
     cbuf |-> IF HasFlag(timecodes[def].flags, OFFSET_MODULATION)
              THEN [array |-> [i \in 1..CBUF_SIZE |-> 0], write_ptr |-> 0]
              ELSE raw.cbuf]

\* timecoder_monitor_init: the raster is held as allocated or not
timecoder_monitor_init(t) == [t EXCEPT !.mon = 1]

\* detect_zero_crossing without its dead band: a crossing as soon as v reaches
\* the baseline (>= zero and <= zero in place of lines 491 and 495)
detect_zero_crossing_NoDeadBand(ch, v, alpha, threshold) ==
    UNION {
        LET up_cross == v >= ch.zero /\ ~ch.positive
            dn_cross == ~up_cross /\ v <= ch.zero /\ ch.positive
        IN  { [zero |-> z,
               positive |-> IF up_cross THEN TRUE
                            ELSE IF dn_cross THEN FALSE ELSE ch.positive,
               swapped |-> up_cross \/ dn_cross,
               crossing_ticker |-> IF up_cross \/ dn_cross THEN 0
                                   ELSE ch.crossing_ticker + 1]
              : z \in IntConv(CDiv(alpha * ch.zero + d, alpha)) }
        : d \in IntResult(v - ch.zero) }

\* detect_zero_crossing(ch, v, alpha, threshold): the channels it can leave
detect_zero_crossing(ch, v, alpha, threshold) ==
    UNION { UNION { UNION {
        LET up_cross == v > up /\ ~ch.positive
            dn_cross == ~up_cross /\ v < dn /\ ch.positive
        IN  { [zero |-> z,
               positive |-> IF up_cross THEN TRUE
                            ELSE IF dn_cross THEN FALSE ELSE ch.positive,
               swapped |-> up_cross \/ dn_cross,
               crossing_ticker |-> IF up_cross \/ dn_cross THEN 0
                                   ELSE ch.crossing_ticker + 1]
              : z \in IntConv(CDiv(alpha * ch.zero + d, alpha)) }
        : d \in IntResult(v - ch.zero) }
        : dn \in IntResult(ch.zero - threshold) }
        : up \in IntResult(ch.zero + threshold) }

\* update_monitor(tc, x, y): TRUE when assert(ref > 0) fails
update_monitor(t) == t.mon # NULL /\ ~(t.ref_level > 0)

\* process_bitstream, lines 562-573: the predicted register (timecode) steps
\* through the LFSR and the decoded bit b is shifted into bitstream; mask is
\* the value of the int expression (1 << bits) - 1
ShiftRegisters(t, b, mask) ==
    LET def == timecodes[t.def]
    IN  IF t.forwards
        THEN [t EXCEPT !.timecode = fwd(t.timecode, def),
                       !.bitstream = (Shr(t.bitstream, 1) + Shl(b, def.bits - 1))
                                     % 2^RegBits]
        ELSE [t EXCEPT !.timecode = rev(t.timecode, def),
                       !.bitstream = (BitAnd(Shl(t.bitstream, 1), mask) + b)
                                     % 2^RegBits]

\* ScoreValidity without its else branch: a mismatch neither resynchronises
\* the prediction nor resets the count
ScoreValidity_NoResync(t) ==
    IF t.timecode = t.bitstream
    THEN [t EXCEPT !.valid_counter = @ + 1]
    ELSE t

\* process_bitstream, lines 575-580: count a match, or resynchronise
ScoreValidity(t) ==
    IF t.timecode = t.bitstream
    THEN [t EXCEPT !.valid_counter = @ + 1]
    ELSE [t EXCEPT !.timecode = t.bitstream, !.valid_counter = 0]

\* AdjustRefLevel without line 588: the new peak is added but the old level
\* never decays
AdjustRefLevel_NoDecay(ref_level, m) ==
    ref_level + CDiv(m, REF_PEAKS_AVG)

\* process_bitstream, lines 588-589
AdjustRefLevel(ref_level, m) ==
    (ref_level - CDiv(ref_level, REF_PEAKS_AVG)) + CDiv(m, REF_PEAKS_AVG)

\* the bit process_bitstream reads off the sample m
DecodedBit(t, m) == IF m > t.ref_level THEN 1 ELSE 0

\* process_bitstream(tc, m): the decoders it can leave
process_bitstream(t, m) ==
    LET def == timecodes[t.def]
        pushed == IF HasFlag(def.flags, OFFSET_MODULATION)
                  THEN [t EXCEPT !.cbuf = cbuf_push(t.cbuf, m)]
                  ELSE t
    IN  { [ScoreValidity(ShiftRegisters(pushed, DecodedBit(t, m), mask))
              EXCEPT !.timecode_ticker = 0,
                     !.ref_level = AdjustRefLevel(t.ref_level, m)]
          : mask \in IF t.forwards THEN {0} ELSE IntMask(def.bits) }

\* InferDirection without line 647: a change of direction keeps the count
InferDirection_KeepCount(t) ==
    LET inferred == IF t.primary.swapped
                    THEN t.primary.positive # t.secondary.positive
                    ELSE t.primary.positive = t.secondary.positive
        forwards == IF HasFlag(timecodes[t.def].flags, SWITCH_PHASE)
                    THEN ~inferred ELSE inferred
    IN  IF (t.primary.swapped \/ t.secondary.swapped) /\ forwards # t.forwards
        THEN [t EXCEPT !.forwards = forwards]
        ELSE t

\* process_sample, lines 633-649: the direction of the last crossing; a change
\* of direction restarts the count of valid bits
InferDirection(t) ==
    LET inferred == IF t.primary.swapped
                    THEN t.primary.positive # t.secondary.positive
                    ELSE t.primary.positive = t.secondary.positive
        forwards == IF HasFlag(timecodes[t.def].flags, SWITCH_PHASE)
                    THEN ~inferred ELSE inferred
    IN  IF (t.primary.swapped \/ t.secondary.swapped) /\ forwards # t.forwards
        THEN [t EXCEPT !.forwards = forwards, !.valid_counter = 0]
        ELSE t

\* ObservePitch without lines 660-661: dx is never negated
ObservePitch_Unsigned(t) ==
    [t EXCEPT !.pitch =
        IF ~t.primary.swapped /\ ~t.secondary.swapped THEN << 0, 1 >>
        ELSE << 1, 4 * timecodes[t.def].resolution >>]

\* process_sample, lines 654-663: the value handed to pitch_dt_observation,
\* held as << numerator, denominator >>
ObservePitch(t) ==
    [t EXCEPT !.pitch =
        IF ~t.primary.swapped /\ ~t.secondary.swapped THEN << 0, 1 >>
        ELSE IF t.forwards THEN << 1, 4 * timecodes[t.def].resolution >>
        ELSE << -1, 4 * timecodes[t.def].resolution >>]

\* ReadsBit without the test of line 669: a bit on every secondary crossing
ReadsBit_AnyPolarity(t) == t.secondary.swapped

\* process_sample, lines 668-669: whether this sample reads a bit
ReadsBit(t) ==
    /\ t.secondary.swapped
    /\ t.primary.positive = ~HasFlag(timecodes[t.def].flags, SWITCH_POLARITY)

\* process_sample(tc, primary, secondary) with the filter state f: the
\* decoders and filter states it can leave, each with the number of calls of
\* process_bitstream made on the way (bits)
process_sample(t, f, primary, secondary) ==
    LET def == timecodes[t.def]
        om == HasFlag(def.flags, OFFSET_MODULATION)
        ema_p == ema(primary, f.ema_primary_old)
        ema_s == ema(secondary, f.ema_secondary_old)
        f2 == IF om
              THEN [f EXCEPT !.ema_primary_old = ema_p, !.primary_old = ema_p,
                             !.ema_secondary_old = ema_s, !.secondary_old = ema_s]
              ELSE f
        pvs == IF om THEN discrete_derivative(ema_p, f.primary_old) ELSE {primary}
        svs == IF om THEN discrete_derivative(ema_s, f.secondary_old) ELSE {secondary}
        \* lines 626-663: crossings, direction, pitch observation
        Tracked(p, s) ==
            ObservePitch(InferDirection([t EXCEPT !.primary = p, !.secondary = s]))
        \* lines 668-678: read a bit off the primary channel
        Decoded(t3) ==
            IF ReadsBit(t3)
            THEN { [tc |-> t4, bits |-> 1]
                   : t4 \in process_bitstream(t3,
                               Abs(CDiv(primary, 2) - CDiv(t3.primary.zero, 2))) }
            ELSE { [tc |-> t3, bits |-> 0] }
    IN  UNION { UNION { UNION { UNION {
            { [tc |-> [d.tc EXCEPT !.timecode_ticker = @ + 1], filt |-> f2,
               bits |-> d.bits]
              : d \in Decoded(Tracked(p, s)) }
            : s \in detect_zero_crossing(t.secondary, sv, t.zero_alpha, t.threshold) }
            : p \in detect_zero_crossing(t.primary, pv, t.zero_alpha, t.threshold) }
            : sv \in svs }
            : pv \in pvs }

\* the crossings of the last samples, newest last, as far as they alternate
\* between the channels: a sample in which both channels cross, or a channel
\* that crosses twice in a row, starts the record afresh.  Each entry tells the
\* channel that crossed and whether that sample read a bit.
CrossingRun(run, t2, bits) ==
    LET p == t2.primary.swapped
        s == t2.secondary.swapped
        entry == [ch |-> IF p THEN "primary" ELSE "secondary", bit |-> bits = 1]
    IN  IF ~p /\ ~s THEN run
        ELSE IF p /\ s THEN << >>
        ELSE IF run # << >> /\ run[Len(run)].ch = entry.ch THEN << entry >>
        ELSE IF Len(run) = 4 THEN Tail(run) \o << entry >>
        ELSE run \o << entry >>

\* History of one frame that took the decoder from t to o.tc, o being an
\* outcome of process_sample.  matched: the decoded bits in a row, up to now,
\* that equalled the LFSR's prediction, with no change of direction in between;
\* lastbit: what the last decoded bit did; silent: every frame since
\* timecoder_init was << 0, 0 >>; turned: the frame changed forwards; bits: the
\* bits the frame decoded; was: the channels before the frame; run: the
\* alternating crossings up to now.
Observe(h, t, o, frame) ==
    LET t2 == o.tc
        def == timecodes[t2.def]
        predicted == IF t2.forwards THEN fwd(t.timecode, def)
                     ELSE rev(t.timecode, def)
        count == IF t2.forwards # t.forwards THEN 0 ELSE h.matched
        h2 == [h EXCEPT !.silent = @ /\ frame = << 0, 0 >>,
                        !.turned = t2.forwards # t.forwards,
                        !.bits = o.bits,
                        !.was = [primary |-> t.primary, secondary |-> t.secondary],
                        !.run = CrossingRun(@, t2, o.bits)]
    IN  IF o.bits = 0 THEN [h2 EXCEPT !.matched = count]
        ELSE IF predicted = t2.bitstream
        THEN [h2 EXCEPT !.matched = count + 1, !.lastbit = "match"]
        ELSE [h2 EXCEPT !.matched = 0, !.lastbit = "mismatch"]

\* the history of a decoder that has taken no frame yet
NoHist ==
    [matched |-> 0, lastbit |-> "none", silent |-> TRUE, turned |-> FALSE,
     bits |-> 0, was |-> [primary |-> NULL, secondary |-> NULL], run |-> << >>]

\* one turn of the while loop of timecoder_submit on the frame <<left, right>>
\* of 16-bit PCM, from the state s = [tc, filt, abort, hist]
SubmitFrame(s, frame) ==
    IF s.abort THEN {s}
    ELSE
    LET def == timecodes[s.tc.def]
        left == frame[1] * 2^PcmShift
        right == frame[2] * 2^PcmShift
        primary == IF HasFlag(def.flags, SWITCH_PRIMARY) THEN left ELSE right
        secondary == IF HasFlag(def.flags, SWITCH_PRIMARY) THEN right ELSE left
    IN  { [tc |-> o.tc,
           filt |-> IF HasFlag(def.flags, OFFSET_MODULATION)
                    THEN [o.filt EXCEPT !.left_old = left, !.right_old = right]
                    ELSE o.filt,
           abort |-> update_monitor(o.tc),
           hist |-> Observe(s.hist, s.tc, o, frame)]
          : o \in process_sample(s.tc, s.filt, primary, secondary) }

\* the while loop of timecoder_submit counting with --npcm instead of npcm--:
\* the last frame of every call is left unprocessed
RECURSIVE SubmitLoop_DropLast(_, _)
SubmitLoop_DropLast(S, pcm) ==
    IF Len(pcm) <= 1 THEN S
    ELSE SubmitLoop_DropLast(UNION { SubmitFrame(s, Head(pcm)) : s \in S }, Tail(pcm))

RECURSIVE SubmitLoop(_, _)
SubmitLoop(S, pcm) ==
    IF pcm = << >> THEN S
    ELSE SubmitLoop(UNION { SubmitFrame(s, Head(pcm)) : s \in S }, Tail(pcm))

\* timecoder_submit(tc, pcm, npcm) with the filter state f and the history h:
\* the states [tc, filt, abort, hist] it can leave
timecoder_submit(t, f, h, pcm) ==
    SubmitLoop({ [tc |-> t, filt |-> f, abort |-> FALSE, hist |-> h] }, pcm)

\* next_definition(def): the next entry with a lookup, searched from entry n
RECURSIVE NextLoop(_, _)
NextLoop(n, lk) ==
    LET m == IF n + 1 > NDefs THEN 1 ELSE n + 1
    IN  IF lk[m] THEN m ELSE NextLoop(m, lk)

next_definition(def, lk) == NextLoop(def, lk)

\* timecoder_cycle_definition that also restarts the prediction: timecode is
\* cleared while bitstream is kept
timecoder_cycle_definition_ClearTimecode(t, lk) ==
    [t EXCEPT !.def = next_definition(t.def, lk),
              !.valid_counter = 0,
              !.timecode_ticker = 0,
              !.timecode = 0]

timecoder_cycle_definition(t, lk) ==
    [t EXCEPT !.def = next_definition(t.def, lk),
              !.valid_counter = 0,
              !.timecode_ticker = 0]

\* timecoder_get_position with the gate one bit early (< instead of <=)
timecoder_get_position_early(t, lt) ==
    IF t.valid_counter < VALID_BITS THEN -1
    ELSE lut_lookup(lt[t.def], t.bitstream)

\* timecoder_get_position(tc, when): the value returned
timecoder_get_position(t, lt) ==
    IF t.valid_counter <= VALID_BITS THEN -1
    ELSE lut_lookup(lt[t.def], t.bitstream)

\* ------------------------------------------------------------------ bounds

\* valid_counter is followed up to this value
MaxValid == 26

\* crossing_ticker and timecode_ticker are followed up to this value
MaxTicker == 12

\* ------------------------------------------------------------------ inputs

\* the struct timecoder handed to timecoder_init: init_channel sets neither
\* swapped nor crossing_ticker, so the channels keep what the storage held
\* (for crossing_ticker: zero, one, or all bits set, which reads as -1 and is
\* 0 after the increment of line 488 whether the field is signed or not)
RawChannels ==
    [zero : {0}, positive : {FALSE}, swapped : BOOLEAN, crossing_ticker : {0, 1, -1}]

RawStorage ==
    { [primary |-> ch, secondary |-> ch, cbuf |-> "unset"] : ch \in RawChannels }

\* frames of silence that end every waveform
RestFrames == 6

Rest == [i \in 1..RestFrames |-> << 0, 0 >>]

\* One cycle of a quiet quadrature tone, right channel leading: four frames
\* <<left, right>> of PCM
QuietRightLeads == << << -2, 2 >>, << 2, 2 >>, << 2, -2 >>, << -2, -2 >> >>

\* One cycle of a quiet quadrature tone, left channel leading
QuietLeftLeads == << << 2, -2 >>, << 2, 2 >>, << -2, 2 >>, << -2, -2 >> >>

\* Cycles of an amplitude-modulated tone whose right channel swings to full
\* scale: its positive peak falls on the crossing of the left channel (a loud
\* chip for a format that reads the right channel in positive polarity)
LoudRightLeftLeads == << << 2, -7 >>, << 2, 2 >>, << -2, 7 >>, << -2, -2 >> >>

LoudRightRightLeads == << << -2, -7 >>, << -2, 2 >>, << 2, 7 >>, << 2, -2 >>, << -2, -2 >> >>

\* The same with the left channel at full scale: its negative trough falls on
\* the crossing of the right channel (a loud chip for a format that reads the
\* left channel in negative polarity)
LoudLeftLeftLeads == << << 2, -2 >>, << 7, 2 >>, << -2, 2 >>, << -7, -2 >> >>

LoudLeftRightLeads == << << -7, 2 >>, << 2, 2 >>, << 7, -2 >>, << -2, -2 >> >>

Waveforms ==
    { w \o Rest : w \in { QuietRightLeads, QuietLeftLeads, LoudRightLeftLeads,
                          LoudRightRightLeads, LoudLeftLeftLeads, LoudLeftRightLeads } }

\* the catalog after timecoder_find_definition has found each name of names
RECURSIVE CatalogAfter(_, _, _)
CatalogAfter(names, lk, lt) ==
    IF names = << >> THEN [lookup |-> lk, lut |-> lt]
    ELSE LET r == timecoder_find_definition(Head(names), TRUE, lk, lt)
         IN  CatalogAfter(Tail(names), r.lookup, r.lut)

NoLookup == [n \in Defs |-> FALSE]

NoLuts == [n \in Defs |-> NoLut]

NoRet == [op |-> "none", val |-> 0]

\* no decoder: the storage of a struct timecoder nothing has initialised
NoDecoder == [def |-> NULL]

\* no twin run is followed
NoSolo == [tc |-> NoDecoder, filt |-> FiltInit]

\* tickers and valid_counter within the bounds the model follows
InBounds(t) ==
    /\ t.valid_counter <= MaxValid + 1
    /\ t.timecode_ticker <= MaxTicker
    /\ t.primary.crossing_ticker <= MaxTicker
    /\ t.secondary.crossing_ticker <= MaxTicker

\* ------------------------------------------------- Spec: one decoder at work

\* The program after timecoder_find_definition("serato_2a") and ("traktor_a"),
\* timecoder_init on one of the two at 7000 Hz and timecoder_monitor_init.
Init ==
    /\ LET c == CatalogAfter(<< "serato_2a", "traktor_a" >>, NoLookup, NoLuts)
       IN  lookup = c.lookup /\ lut = c.lut
    /\ aborted = FALSE
    /\ ret = NoRet
    /\ tc \in { timecoder_monitor_init(timecoder_init(raw, d, 1, 7000, FALSE))
                : raw \in RawStorage, d \in {1, 2} }
    /\ filt = FiltInit
    /\ tcB = NoDecoder
    /\ solo = NoSolo
    /\ reg = << 1, 0 >>
    /\ nsamples = 0
    /\ hist = NoHist

\* timecoder_submit(tc, pcm, npcm) on one of the waveforms
Submit ==
    /\ ~aborted
    /\ tc.valid_counter < MaxValid
    /\ \E pcm \in Waveforms :
         \E o \in timecoder_submit(tc, filt, hist, pcm) :
            /\ InBounds(o.tc)
            /\ tc' = o.tc
            /\ filt' = o.filt
            /\ aborted' = o.abort
            /\ hist' = o.hist
    /\ ret' = [op |-> "submit", val |-> 0]
    /\ UNCHANGED << lookup, lut, tcB, solo, reg, nsamples >>

\* timecoder_cycle_definition(tc); ret.val keeps the format the decoder had
CycleDefinition ==
    /\ ~aborted
    /\ tc' = timecoder_cycle_definition(tc, lookup)
    /\ hist' = [hist EXCEPT !.matched = 0]
    /\ ret' = [op |-> "cycle_definition", val |-> tc.def]
    /\ UNCHANGED << lookup, lut, aborted, filt, tcB, solo, reg, nsamples >>

\* timecoder_get_position(tc, when): nothing of the decoder is assigned
GetPosition ==
    /\ ~aborted
    /\ ret' = [op |-> "get_position", val |-> timecoder_get_position(tc, lut)]
    /\ UNCHANGED << lookup, lut, aborted, tc, filt, tcB, solo, reg, nsamples, hist >>

Next == Submit \/ CycleDefinition \/ GetPosition

Spec == Init /\ [][Next]_vars

\* ------------------------------------- SpecCatalog: the catalog and its LUTs

\* the names a caller may ask for: every catalog name and one that is not there
Names == { timecodes[n].name : n \in Defs } \cup { "unknown" }

\* The program at start: static storage, no LUT built, no decoder.
InitCatalog ==
    /\ lookup = NoLookup
    /\ lut = NoLuts
    /\ aborted = FALSE
    /\ ret = NoRet
    /\ tc = NoDecoder
    /\ filt = FiltInit
    /\ tcB = NoDecoder
    /\ solo = NoSolo
    /\ reg = << 1, 0 >>
    /\ nsamples = 0
    /\ hist = NoHist

\* timecoder_find_definition(name); lut_init may or may not get its memory
FindDefinition ==
    /\ ~aborted
    /\ \E name \in Names, mem \in BOOLEAN :
         LET r == timecoder_find_definition(name, mem, lookup, lut)
         IN  /\ lookup' = r.lookup
             /\ lut' = r.lut
             /\ aborted' = r.abort
             /\ ret' = [op |-> "find_definition", val |-> r.def]
    /\ UNCHANGED << tc, filt, tcB, solo, reg, nsamples, hist >>

\* timecoder_free_lookup()
FreeLookup ==
    /\ ~aborted
    /\ lut' = timecoder_free_lookup(lookup, lut)
    /\ ret' = [op |-> "free_lookup", val |-> 0]
    /\ UNCHANGED << lookup, aborted, tc, filt, tcB, solo, reg, nsamples, hist >>

NextCatalog == FindDefinition \/ FreeLookup

SpecCatalog == InitCatalog /\ [][NextCatalog]_vars

\* ------------------------------------------ SpecLfsr: the shift register

\* Any register value below 2^bits of any catalog format.
InitLfsr ==
    /\ reg \in { << n, x >> : n \in Defs, x \in 0..(2^RegBits - 1) }
    /\ reg[2] < 2^(timecodes[reg[1]].bits)
    /\ lookup = NoLookup
    /\ lut = NoLuts
    /\ aborted = FALSE
    /\ ret = NoRet
    /\ tc = NoDecoder
    /\ filt = FiltInit
    /\ tcB = NoDecoder
    /\ solo = NoSolo
    /\ nsamples = 0
    /\ hist = NoHist

\* fwd(current, def); ret remembers the value it was applied to
StepFwd ==
    /\ reg' = << reg[1], fwd(reg[2], timecodes[reg[1]]) >>
    /\ ret' = [op |-> "fwd", val |-> reg[2]]
    /\ UNCHANGED << lookup, lut, aborted, tc, filt, tcB, solo, nsamples, hist >>

\* rev(current, def)
StepRev ==
    /\ reg' = << reg[1], rev(reg[2], timecodes[reg[1]]) >>
    /\ ret' = [op |-> "rev", val |-> reg[2]]
    /\ UNCHANGED << lookup, lut, aborted, tc, filt, tcB, solo, nsamples, hist >>

NextLfsr == StepFwd \/ StepRev

SpecLfsr == InitLfsr /\ [][NextLfsr]_vars

\* --------------------------------- SpecSample: one decoder, sample by sample

\* samples submitted to a decoder are followed up to this many
MaxSamples == 2

\* the least and the greatest value of a PCM sample (signed short), and silence
PcmValues == { -(2^(IntBits - PcmShift - 1)), 0, 2^(IntBits - PcmShift - 1) - 1 }

\* stereo frames at the extremes of the PCM range, and a silent one
Frames ==
    { << l, r >> : l, r \in PcmValues \ {0} } \cup { << 0, 0 >> }

\* the blocks a caller submits: one frame or two
Blocks == { << f >> : f \in Frames } \cup { << f, g >> : f, g \in Frames }

\* The program after timecoder_find_definition of three formats and
\* timecoder_init on one of them.
InitSample ==
    /\ LET c == CatalogAfter(<< "serato_2a", "traktor_a", "traktor_mk2_a" >>,
                             NoLookup, NoLuts)
       IN  lookup = c.lookup /\ lut = c.lut
    /\ aborted = FALSE
    /\ ret = NoRet
    /\ tc \in { timecoder_monitor_init(timecoder_init(raw, d, 1, 7000, FALSE))
                : raw \in RawStorage, d \in {1, 2, 3} }
    /\ filt = FiltInit
    /\ tcB = NoDecoder
    /\ solo = NoSolo
    /\ reg = << 1, 0 >>
    /\ nsamples = 0
    /\ hist = NoHist

\* timecoder_submit(tc, pcm, npcm) on a block of one or two frames
SubmitBlock ==
    /\ ~aborted
    /\ \E pcm \in Blocks :
         /\ nsamples + Len(pcm) <= MaxSamples
         /\ nsamples' = nsamples + Len(pcm)
         /\ \E o \in timecoder_submit(tc, filt, hist, pcm) :
              /\ tc' = o.tc
              /\ filt' = o.filt
              /\ aborted' = o.abort
              /\ hist' = o.hist
    /\ ret' = [op |-> "submit", val |-> 0]
    /\ UNCHANGED << lookup, lut, tcB, solo, reg >>

NextSample == SubmitBlock \/ GetPosition

SpecSample == InitSample /\ [][NextSample]_vars

\* ------------------------------------------ SpecIso: two decoders, one process

\* samples submitted to the two decoders together are followed up to this many
MaxIsoSamples == 3

\* quiet stereo frames
IsoFrames == { << 2, 2 >>, << 2, -2 >>, << -2, 2 >>, << -2, -2 >> }

\* what a caller can observe of a decoder
DecoderView(t, lt) ==
    [primary |-> t.primary, secondary |-> t.secondary, forwards |-> t.forwards,
     bitstream |-> t.bitstream, valid_counter |-> t.valid_counter,
     position |-> timecoder_get_position(t, lt)]

\* Two decoders after timecoder_init, each on serato_2a or traktor_mk2_a; the
\* twin run starts as decoder tc does.
InitIso ==
    /\ LET c == CatalogAfter(<< "serato_2a", "traktor_mk2_a" >>, NoLookup, NoLuts)
       IN  lookup = c.lookup /\ lut = c.lut
    /\ aborted = FALSE
    /\ ret = NoRet
    /\ tc \in { timecoder_monitor_init(timecoder_init(raw, d, 1, 7000, FALSE))
                : raw \in RawStorage, d \in {1, 3} }
    /\ tcB \in { timecoder_monitor_init(timecoder_init(raw, d, 1, 7000, FALSE))
                 : raw \in RawStorage, d \in {1, 3} }
    /\ filt = FiltInit
    /\ solo = [tc |-> tc, filt |-> FiltInit]
    /\ reg = << 1, 0 >>
    /\ nsamples = 0
    /\ hist = NoHist

\* timecoder_submit(&tc, pcm, 1). The twin run makes the same call on its own
\* filter state; where both calls can leave the same decoders, an undefined
\* operation is resolved the same way in both.
SubmitA ==
    /\ ~aborted
    /\ nsamples < MaxIsoSamples
    /\ nsamples' = nsamples + 1
    /\ \E frame \in IsoFrames :
         LET shared == timecoder_submit(tc, filt, NoHist, << frame >>)
             alone == timecoder_submit(solo.tc, solo.filt, NoHist, << frame >>)
         IN  \E o \in shared : \E oS \in alone :
                /\ { x.tc : x \in shared } = { x.tc : x \in alone } => oS.tc = o.tc
                /\ tc' = o.tc
                /\ filt' = o.filt
                /\ solo' = [tc |-> oS.tc, filt |-> oS.filt]
                /\ aborted' = (o.abort \/ oS.abort)
    /\ ret' = [op |-> "submit", val |-> 1]
    /\ UNCHANGED << lookup, lut, tcB, reg, hist >>

\* timecoder_submit(&tcB, pcm, 1): the other decoder of the process
SubmitB ==
    /\ ~aborted
    /\ nsamples < MaxIsoSamples
    /\ nsamples' = nsamples + 1
    /\ \E frame \in IsoFrames :
         \E o \in timecoder_submit(tcB, filt, NoHist, << frame >>) :
            /\ tcB' = o.tc
            /\ filt' = o.filt
            /\ aborted' = o.abort
    /\ ret' = [op |-> "submit", val |-> 2]
    /\ UNCHANGED << lookup, lut, tc, solo, reg, hist >>

NextIso == SubmitA \/ SubmitB

SpecIso == InitIso /\ [][NextIso]_vars

\* ------------------------------------------------------------------ claims

\* C1: timecoder_get_position returns -1 (unknown) whenever fewer than 25
\* decoded bits in a row have matched the LFSR's prediction since the last
\* mismatch, change of direction or definition cycle, that is whenever
\* valid_counter <= 24.
C1_ValidityGating ==
    /\ hist.matched = tc.valid_counter
    /\ tc.valid_counter <= VALID_BITS => timecoder_get_position(tc, lut) = -1
    /\ (ret.op = "get_position" /\ hist.matched <= VALID_BITS) => ret.val = -1

\* C1 witness: 24 bits in a row have matched, the register holds a state of
\* the sequence, and timecoder_get_position has withheld the position
C1_Witness ==
    /\ hist.matched = VALID_BITS
    /\ lut_lookup(lut[tc.def], tc.bitstream) # NOT_PRESENT
    /\ ret = [op |-> "get_position", val |-> -1]

\* C4: bitstream has at most `bits` significant bits for the decoder's current
\* format, also after cycling from a wider format to a narrower one.
C4_BitstreamWidth == tc.bitstream < 2^(timecodes[tc.def].bits)

\* C5: valid_counter = 0 whenever timecode # bitstream: between operations,
\* and at the comparison in process_bitstream (the last decoded bit did not
\* match the prediction).
C5_ResetOnMismatch ==
    (tc.timecode # tc.bitstream \/ hist.lastbit = "mismatch")
        => tc.valid_counter = 0

\* C5 witness: the last decoded bit contradicted the prediction
C5_Witness == hist.lastbit = "mismatch" /\ tc.valid_counter = 0 /\ tc.bitstream # 0

\* C6: 0 < ref_level <= INT_MAX after every decoded bit, and assert(ref > 0)
\* in update_monitor never fails.
C6_RefLevelPositive == 0 < tc.ref_level /\ tc.ref_level <= INT_MAX /\ ~aborted

\* C6 witness: the reference level has decayed to where a loud chip reads as 1
C6_Witness == tc.ref_level < REF_PEAKS_AVG + 8 /\ tc.bitstream # 0 /\ tc.mon # NULL

\* x_i = fwd^i(seed): the state build_lookup pushes in iteration i
RECURSIVE SequenceState(_, _)
SequenceState(def, i) ==
    IF i = 0 THEN def.seed ELSE fwd(SequenceState(def, i - 1), def)

\* the states of a format's sequence, in order
SequenceOf(def) == [i \in 1..def.length |-> SequenceState(def, i - 1)]

\* C2: every format timecoder_find_definition returns (non-NULL) has, at the
\* moment of return, a built LUT holding the states of the format's sequence,
\* also when the call follows a timecoder_free_lookup.
C2_FindReturnsBuilt ==
    (ret.op = "find_definition" /\ ret.val # NULL)
        => /\ lut[ret.val].state = "alloc"
           /\ lut[ret.val].slot = SequenceOf(timecodes[ret.val])

\* C3: no call of timecoder_free_lookup clears a LUT that an earlier call
\* already cleared and that has not been rebuilt since.
C3_NoDoubleClear == \A n \in Defs : lut[n].state # "double_free"

\* C7: for every catalog format and every register value x below 2^bits,
\* rev(fwd(x)) = x and fwd(rev(x)) = x; a step of either function is undone
\* by the other.
C7_InverseLaw ==
    LET def == timecodes[reg[1]]
        x == reg[2]
    IN  /\ x < 2^(def.bits)
        /\ rev(fwd(x, def), def) = x
        /\ fwd(rev(x, def), def) = x
        /\ ret.op = "fwd" => rev(x, def) = ret.val
        /\ ret.op = "rev" => fwd(x, def) = ret.val

\* C7 witness: rev has been applied to a register of the widest format whose
\* top bit was set, and the bit has come round to the bottom
C7_Witness ==
    /\ ret.op = "rev"
    /\ HasFlag(timecodes[reg[1]].flags, OFFSET_MODULATION)
    /\ ret.val >= 2^(timecodes[reg[1]].bits - 1)
    /\ reg[2] % 2 = 1

\* C8: once build_lookup has completed for a format, the `length` states
\* x_i = fwd^i(seed) are pairwise distinct (neither assertion of the loop has
\* failed), lookup(x_i) = i for every i in [0, length), and lookup returns the
\* not-present value for every register value outside the sequence.
C8_LutComplete ==
    /\ ~aborted
    /\ \A n \in Defs :
         (lookup[n] /\ lut[n].state = "alloc") =>
            LET def == timecodes[n]
                xs == lut[n].slot
            IN  /\ Len(xs) = def.length
                /\ \A i \in 1..def.length : xs[i] = SequenceState(def, i - 1)
                /\ \A i, j \in 1..def.length : xs[i] = xs[j] => i = j
                /\ \A i \in 1..def.length : lut_lookup(lut[n], xs[i]) = i - 1
                /\ \A y \in 0..(2^(def.bits) - 1) :
                     (\A i \in 1..def.length : xs[i] # y)
                         => lut_lookup(lut[n], y) = NOT_PRESENT

\* C8 witness: timecoder_find_definition has just built and returned the
\* widest format
C8_Witness ==
    /\ ret.op = "find_definition"
    /\ ret.val # NULL
    /\ HasFlag(timecodes[ret.val].flags, OFFSET_MODULATION)
    /\ lookup[ret.val]
    /\ lut[ret.val].state = "alloc"
    /\ Len(lut[ret.val].slot) = timecodes[ret.val].length

\* C9: the state of one decoder (channels, forwards, bitstream, valid_counter,
\* position) after its own samples does not depend on the samples submitted
\* to the other decoder, whatever the formats of the two.
C9_Isolation == DecoderView(tc, lut) = DecoderView(solo.tc, lut)

\* the decoders and filter states timecoder_submit can leave when block B is
\* submitted after block A, each in a call of its own
SubmitTwice(t, f, h, A, B) ==
    UNION { IF o.abort THEN {o} ELSE timecoder_submit(o.tc, o.filt, o.hist, B)
            : o \in timecoder_submit(t, f, h, A) }

\* C10: submitting block A and then block B leaves the decoder as submitting
\* the concatenation of A and B in one call does (for blocks of one frame in
\* every state, and for blocks of up to two frames then one on a fresh
\* decoder), and the value timecoder_get_position returned is the one of the
\* state the last completed submit left.
C10_SubmitOrdering ==
    /\ ~aborted =>
         \A A \in Blocks : \A f \in Frames :
            (Len(A) = 1 \/ nsamples = 0) =>
                LET once == timecoder_submit(tc, filt, hist, A \o << f >>)
                    twice == SubmitTwice(tc, filt, hist, A, << f >>)
                IN  { [tc |-> o.tc, filt |-> o.filt, abort |-> o.abort] : o \in once }
                    = { [tc |-> o.tc, filt |-> o.filt, abort |-> o.abort] : o \in twice }
    /\ ret.op = "get_position" => ret.val = timecoder_get_position(tc, lut)

\* C10 witness: the decoder has taken samples in more than one call, a channel
\* has crossed, and the position has been asked for since
C10_Witness ==
    /\ ret.op = "get_position"
    /\ nsamples = MaxSamples
    /\ tc.primary.positive
    /\ tc.timecode_ticker = nsamples

\* --------------------------- SpecCycle: cycling through a changing catalog

\* timecoder_submit calls followed after timecoder_init
MaxCycleSubmits == 2

\* the formats the caller asks for; the entries between them are never built
CycleNames == { "serato_2a", "traktor_a", "pioneer_a" }

\* The program after timecoder_find_definition of one of the names and
\* timecoder_init on the format it returned.
InitCycle ==
    /\ \E name \in CycleNames :
         LET r == timecoder_find_definition(name, TRUE, NoLookup, NoLuts)
         IN  /\ lookup = r.lookup
             /\ lut = r.lut
             /\ tc \in { timecoder_init(raw, r.def, 1, 7000, FALSE) : raw \in RawStorage }
    /\ aborted = FALSE
    /\ ret = NoRet
    /\ filt = FiltInit
    /\ tcB = NoDecoder
    /\ solo = NoSolo
    /\ reg = << 1, 0 >>
    /\ nsamples = 0
    /\ hist = NoHist

\* timecoder_find_definition(name) for another format
FindAnother ==
    /\ ~aborted
    /\ \E name \in CycleNames, mem \in BOOLEAN :
         LET r == timecoder_find_definition(name, mem, lookup, lut)
         IN  /\ lookup' = r.lookup
             /\ lut' = r.lut
             /\ aborted' = r.abort
             /\ ret' = [op |-> "find_definition", val |-> r.def]
    /\ UNCHANGED << tc, filt, tcB, solo, reg, nsamples, hist >>

\* timecoder_submit(tc, pcm, npcm) on one cycle of the quiet tone
SubmitQuiet ==
    /\ ~aborted
    /\ nsamples < MaxCycleSubmits
    /\ \E o \in timecoder_submit(tc, filt, hist, QuietRightLeads \o Rest) :
            /\ tc' = o.tc
            /\ filt' = o.filt
            /\ aborted' = o.abort
            /\ hist' = o.hist
    /\ nsamples' = nsamples + 1
    /\ ret' = [op |-> "submit", val |-> 0]
    /\ UNCHANGED << lookup, lut, tcB, solo, reg >>

NextCycle == FindAnother \/ FreeLookup \/ SubmitQuiet \/ CycleDefinition \/ GetPosition

SpecCycle == InitCycle /\ [][NextCycle]_vars

\* entry n of the catalog has a LUT that is built: build_lookup completed and
\* nothing has cleared the table since
Built(n) == lookup[n] /\ lut[n].state = "alloc"

\* the entry k places after entry n in cyclic catalog order
CyclicAfter(n, k) == ((n - 1 + k) % NDefs) + 1

\* the first entry after n, in cyclic order, with a built LUT; n when no other has
FirstBuiltAfter(n) ==
    LET ks == { k \in 1..(NDefs - 1) : Built(CyclicAfter(n, k)) }
    IN  IF ks = {} THEN n
        ELSE CyclicAfter(n, CHOOSE k \in ks : \A j \in ks : k <= j)

\* C11: right after timecoder_cycle_definition the decoder's format is the
\* first catalog entry after the one it had, in cyclic order, whose LUT is
\* built (the one it had when no other is built), valid_counter and
\* timecode_ticker are 0 and timecoder_get_position returns unknown.
C11_CycleToNextBuilt ==
    ret.op = "cycle_definition" =>
        /\ tc.def = FirstBuiltAfter(ret.val)
        /\ tc.valid_counter = 0
        /\ tc.timecode_ticker = 0
        /\ timecoder_get_position(tc, lut) = -1

\* C12: a timecoder_find_definition that fails changes nothing of the catalog.
\* In every state of the catalog, a name that is not there returns NULL and
\* leaves every lookup flag and LUT as it was; for a format not yet built, a
\* failed allocation returns NULL and leaves flags and LUTs as they were, and
\* the next call for that name, with memory, builds the LUT and returns the
\* format.  Every step that returned NULL has left flags and LUTs unchanged.
C12_FailedFindChangesNothing ==
    /\ [](~aborted =>
            /\ \A mem \in BOOLEAN :
                 timecoder_find_definition("unknown", mem, lookup, lut)
                    = [def |-> NULL, lookup |-> lookup, lut |-> lut, abort |-> FALSE]
            /\ \A n \in Defs :
                 ~lookup[n] =>
                    LET failed == timecoder_find_definition(timecodes[n].name, FALSE,
                                                            lookup, lut)
                        again == timecoder_find_definition(timecodes[n].name, TRUE,
                                                           failed.lookup, failed.lut)
                    IN  /\ failed = [def |-> NULL, lookup |-> lookup, lut |-> lut,
                                     abort |-> FALSE]
                        /\ again.def = n
                        /\ again.lookup[n]
                        /\ again.lut[n].state = "alloc"
                        /\ again.lut[n].slot = SequenceOf(timecodes[n]))
    /\ [][(ret'.op = "find_definition" /\ ret'.val = NULL)
            => (lookup' = lookup /\ lut' = lut)]_vars

\* C12 witness: a call of timecoder_find_definition has returned NULL while
\* some formats of the catalog are built and others are not
C12_Witness ==
    /\ ret = [op |-> "find_definition", val |-> NULL]
    /\ \E n \in Defs : lookup[n] /\ lut[n].state = "alloc"
    /\ \E n \in Defs : ~lookup[n] /\ lut[n] = NoLut

\* ------------------------------------- SpecFrame: one frame after the other

\* frames followed after timecoder_init
MaxFrames == 5

\* a quiet quadrature tone in any order of its four phases, and silence
QuadFrames == IsoFrames \cup { << 0, 0 >> }

\* The program after timecoder_find_definition of every format and
\* timecoder_init on one of them at 7000 Hz.
InitFrame ==
    /\ LET c == CatalogAfter([n \in Defs |-> timecodes[n].name], NoLookup, NoLuts)
       IN  lookup = c.lookup /\ lut = c.lut
    /\ aborted = FALSE
    /\ ret = NoRet
    /\ tc \in { timecoder_init(raw, d, 1, 7000, FALSE) : raw \in RawStorage, d \in Defs }
    /\ filt = FiltInit
    /\ tcB = NoDecoder
    /\ solo = NoSolo
    /\ reg = << 1, 0 >>
    /\ nsamples = 0
    /\ hist = NoHist

\* timecoder_submit(tc, pcm, 1) on one frame
SubmitOne ==
    /\ ~aborted
    /\ nsamples < MaxFrames
    /\ \E frame \in QuadFrames :
         \E o \in timecoder_submit(tc, filt, hist, << frame >>) :
            /\ tc' = o.tc
            /\ filt' = o.filt
            /\ aborted' = o.abort
            /\ hist' = o.hist
    /\ nsamples' = nsamples + 1
    /\ ret' = [op |-> "submit", val |-> 0]
    /\ UNCHANGED << lookup, lut, tcB, solo, reg >>

NextFrame == SubmitOne

SpecFrame == InitFrame /\ [][NextFrame]_vars

C14_TurnForcesRelock ==
    /\ hist.turned =>
          /\ tc.primary.swapped \/ tc.secondary.swapped
          /\ tc.valid_counter <= hist.bits
          /\ tc.valid_counter <= 1
          /\ timecoder_get_position(tc, lut) = -1
    /\ tc.valid_counter = hist.matched
    /\ hist.matched <= VALID_BITS => timecoder_get_position(tc, lut) = -1

\* C14 witness: on its third frame or later a decoder has turned to reverse on
\* a frame that also decoded a matching bit, the only one counted now
C14_Witness ==
    /\ hist.turned
    /\ ~tc.forwards
    /\ hist.bits = 1
    /\ hist.lastbit = "match"
    /\ tc.valid_counter = 1
    /\ nsamples >= 3

\* ------------------------------------------ SpecBits: process_bitstream

\* calls of process_bitstream followed from each starting state
MaxBits == 2

\* sample heights m handed to process_bitstream: a quiet chip and a loud one
BitLevels == { 2^(IntBits - 4), 2^(IntBits - 2) - 8 }

\* valid_counter of the starting states: unlocked, and either side of the gate
\* of timecoder_get_position
LockLevels == { 0, VALID_BITS, VALID_BITS + 1 }

\* A decoder in the middle of a timecode: any format, either direction, the
\* two registers equal (as ScoreValidity leaves them) at any value of `bits`
\* bits, ref_level settled between the two chip heights.
InitBits ==
    /\ LET c == CatalogAfter([n \in Defs |-> timecodes[n].name], NoLookup, NoLuts)
       IN  lookup = c.lookup /\ lut = c.lut
    /\ aborted = FALSE
    /\ ret = NoRet
    /\ \E d \in Defs, forwards \in BOOLEAN, v \in LockLevels :
         \E x \in 0..(2^(timecodes[d].bits) - 1) :
            tc = [timecoder_init(CHOOSE raw \in RawStorage : TRUE, d, 1, 7000, FALSE)
                    EXCEPT !.forwards = forwards,
                           !.bitstream = x,
                           !.timecode = x,
                           !.valid_counter = v,
                           !.ref_level = REF_PEAKS_AVG]
    /\ filt = FiltInit
    /\ tcB = NoDecoder
    /\ solo = NoSolo
    /\ reg = << 1, 0 >>
    /\ nsamples = 0
    /\ hist = NoHist

\* process_bitstream(tc, m); ret keeps the arguments of the call
DecodeBit ==
    /\ ~aborted
    /\ nsamples < MaxBits
    /\ \E m \in BitLevels :
         /\ tc' \in process_bitstream(tc, m)
         /\ ret' = [op |-> "process_bitstream", val |-> tc, m |-> m]
    /\ nsamples' = nsamples + 1
    /\ UNCHANGED << lookup, lut, aborted, filt, tcB, solo, reg, hist >>

NextBits == DecodeBit

SpecBits == InitBits /\ [][NextBits]_vars

\* C15: every bit decoded in reverse leaves bitstream at
\* ((bitstream << 1) & (2^bits - 1)) | b, the mask being that of the format's
\* full register width, in every format of the catalog.
C15_ReverseShiftFullMask ==
    (ret.op = "process_bitstream" /\ ~ret.val.forwards) =>
        tc.bitstream = BitOr(BitAnd(Shl(ret.val.bitstream, 1),
                                    2^(timecodes[tc.def].bits) - 1),
                             DecodedBit(ret.val, ret.m))

\* C16: in every state of a decoder fed with 16-bit PCM, and for every value v
\* the next sample can take (a PCM value shifted up by PcmShift), the int
\* expressions of detect_zero_crossing, zero + threshold, zero - threshold and
\* v - zero, have their exact values within the range of int on both channels,
\* and zero lies within the range of the shifted samples.
C16_BaselineInRange ==
    ~HasFlag(timecodes[tc.def].flags, OFFSET_MODULATION) =>
        \A ch \in { tc.primary, tc.secondary } :
            /\ InInt(ch.zero + tc.threshold)
            /\ InInt(ch.zero - tc.threshold)
            /\ \A pcm \in PcmValues : InInt(pcm * 2^PcmShift - ch.zero)
            /\ \E lo, hi \in PcmValues :
                  lo * 2^PcmShift <= ch.zero /\ ch.zero <= hi * 2^PcmShift

\* the channels of the decoder
Channels == { "primary", "secondary" }

\* C17: after every sample, on each channel, swapped is true iff positive has
\* changed in that sample iff crossing_ticker = 0, and a sample without a
\* crossing has raised crossing_ticker by exactly 1.
C17_CrossingHysteresis ==
    nsamples >= 1 =>
        \A c \in Channels :
            LET now == tc[c]
                was == hist.was[c]
            IN  /\ now.swapped <=> (now.positive # was.positive)
                /\ now.swapped <=> (now.crossing_ticker = 0)
                /\ ~now.swapped => now.crossing_ticker = was.crossing_ticker + 1

\* C18: a sample decodes at most one bit, and decodes one only if the
\* secondary channel crossed in it with primary.positive equal to "polarity
\* not switched"; among any four consecutive crossings that alternate between
\* the channels exactly one decoded a bit, and it is a secondary crossing.
C18_OneBitPerChip ==
    nsamples >= 1 =>
        /\ hist.bits \in {0, 1}
        /\ hist.bits = 1 =>
              /\ tc.secondary.swapped
              /\ tc.primary.positive
                    = ~HasFlag(timecodes[tc.def].flags, SWITCH_POLARITY)
        /\ ~tc.secondary.swapped => hist.bits = 0
        /\ Len(hist.run) = 4 =>
              /\ Cardinality({ i \in 1..4 : hist.run[i].bit }) = 1
              /\ \A i \in 1..4 : hist.run[i].bit => hist.run[i].ch = "secondary"

\* C18 witness: four crossings in a row have alternated between the channels
\* of a decoder with switched polarity, and the last one, a secondary crossing
\* with primary negative, has decoded the bit
C18_Witness ==
    /\ Len(hist.run) = 4
    /\ hist.run[4] = [ch |-> "secondary", bit |-> TRUE]
    /\ hist.bits = 1
    /\ HasFlag(timecodes[tc.def].flags, SWITCH_POLARITY)
    /\ ~tc.primary.positive

\* C19: the pitch observation of a sample is 0.0 iff neither channel crossed
\* in it; otherwise it is 1 / (4 * resolution) when forwards is true at the
\* end of the sample and -1 / (4 * resolution) when it is false.
C19_PitchObservation ==
    nsamples >= 1 =>
        LET crossed == tc.primary.swapped \/ tc.secondary.swapped
            quarter == 4 * timecodes[tc.def].resolution
        IN  /\ tc.pitch[1] = 0 <=> ~crossed
            /\ crossed => tc.pitch = << IF tc.forwards THEN 1 ELSE -1, quarter >>
            /\ tc.pitch[2] > 0

\* C19 witness: a decoder of a format with switched phase has turned to
\* reverse on a primary crossing and observed a negative pitch
C19_Witness ==
    /\ nsamples >= 1
    /\ HasFlag(timecodes[tc.def].flags, SWITCH_PHASE)
    /\ tc.primary.swapped /\ ~tc.secondary.swapped
    /\ hist.turned
    /\ tc.pitch = << -1, 4 * timecodes[tc.def].resolution >>

\* the bit the LFSR predicts for a decoder t: the one that enters the register
\* when it steps in t's direction
PredictedBit(t) ==
    LET def == timecodes[t.def]
    IN  IF t.forwards THEN Shr(fwd(t.timecode, def), def.bits - 1) % 2
        ELSE rev(t.timecode, def) % 2

\* C20: when process_bitstream is called with timecode = bitstream = x_i, the
\* i-th state of the format's sequence, a decoded bit equal to the predicted
\* one leaves bitstream at x_(i+1) forwards (i < length - 1) and at x_(i-1) in
\* reverse (i > 0), raises valid_counter by exactly 1 and moves a position
\* that timecoder_get_position reported by exactly +1 or -1; a decoded bit
\* that differs from the predicted one leaves valid_counter at 0.
C20_LockStep ==
    ret.op = "process_bitstream" =>
        LET pre == ret.val
            def == timecodes[pre.def]
            i == lut_lookup(lut[pre.def], pre.timecode)
            step == IF pre.forwards THEN 1 ELSE -1
            before == timecoder_get_position(pre, lut)
        IN  (pre.timecode = pre.bitstream /\ i # NOT_PRESENT) =>
                /\ (/\ DecodedBit(pre, ret.m) = PredictedBit(pre)
                    /\ 0 <= i + step /\ i + step <= def.length - 1)
                   => /\ tc.bitstream = SequenceState(def, i + step)
                      /\ tc.valid_counter = pre.valid_counter + 1
                      /\ before # -1 => timecoder_get_position(tc, lut) = before + step
                /\ DecodedBit(pre, ret.m) # PredictedBit(pre) => tc.valid_counter = 0

\* C21: between operations the predicted register equals the observed one:
\* timecode = bitstream in every state reached from timecoder_init by
\* timecoder_submit and timecoder_cycle_definition calls.
C21_RegistersAgree == tc.timecode = tc.bitstream

\* C21 witness: the last decoded bit contradicted the prediction, the register
\* holds bits that were read as 1, and the format has been cycled since
C21_Witness ==
    /\ ret.op = "cycle_definition"
    /\ hist.lastbit = "mismatch"
    /\ tc.bitstream # 0
    /\ tc.timecode = tc.bitstream

====
